---- MODULE Spec2Model ----
(***************************************************************************)
(* Model of divelist.c of subsurface: the dive list with its two row       *)
(* stores (the flat list model and the trip-grouped tree model), the trip  *)
(* grouping done by fill_dive_list, the selection tracking done by the     *)
(* selection callbacks, the switch between the two stores on a sort-column *)
(* change, and the per-dive gas statistics.                                *)
(***************************************************************************)
EXTENDS Integers, Sequences, FiniteSets, TLC

VARIABLES
    nr,               \* dive_table.nr: number of dive records
    when,             \* dive->when of dive i (0-based index)
    tripflag,         \* dive->tripflag of dive i
    autogroup,        \* gboolean autogroup
    dive_trip_list,   \* GList *dive_trip_list, oldest trip first
    treemodel,        \* dive_list.treemodel: rows of the grouped store
    listmodel,        \* dive_list.listmodel: rows of the flat store
    model,            \* dive_list.model: "tree" or "list"
    selected,         \* set of dive indices whose dive->selected is set
    amount_selected,  \* int amount_selected
    selected_dive,    \* int selected_dive
    gtksel,           \* rows the GtkTreeSelection marks as selected
    expanded,         \* group rows the tree view shows expanded
    lastcol,          \* static int lastcol
    sortorder,        \* static GtkSortType sortorder[]
    treesort,         \* sort column and order held by the tree store
    listsort,         \* sort column and order held by the list store
    second_call,      \* static gboolean second_call
    failed,           \* a NULL dive was dereferenced
    last,             \* the operation that produced this state
    rebuilds,         \* number of rebuilds done since construction
    divedata,         \* number, rating, sac, otu and weights of dive i
    treecols,         \* the columns of the row of dive i in the tree store
    listcols,         \* the columns of the row of dive i in the list store
    gdive,            \* the dive given to the statistics: its cylinders, or all of it
    gres              \* result of the statistics function last applied

vars == <<nr, when, tripflag, autogroup, dive_trip_list, treemodel, listmodel,
          model, selected, amount_selected, selected_dive, gtksel, expanded,
          lastcol, sortorder, treesort, listsort, second_call, failed, last,
          rebuilds, divedata, treecols, listcols, gdive, gres>>

(***************************************************************************)
(* Bounds                                                                  *)
(***************************************************************************)
MaxDives == 3

MaxTime == 4

MaxInitTrips == 1

MaxFileTrips == 3

MaxBatch == 2

MaxRebuilds == 2

MaxCyl == 2

Times == 1..MaxTime

DiveIdx == 0..(MaxDives - 1)

(***************************************************************************)
(* Program constants                                                       *)
(***************************************************************************)
DIVE_DATE == 2

DIVE_DEPTH == 4

DIVE_SAC == 11

SortKeys == {DIVE_DATE, DIVE_DEPTH, DIVE_SAC}

TF_NONE == "TF_NONE"

NO_TRIP == "NOTRIP"

IN_TRIP == "INTRIP"

TripFlags == {TF_NONE, NO_TRIP, IN_TRIP}

GTK_SORT_ASCENDING == "asc"

GTK_SORT_DESCENDING == "desc"

TRIP_THRESHOLD == 1

NoTrip == 0

MinOf(S) == CHOOSE x \in S : \A y \in S : x <= y

MaxOf(S) == CHOOSE x \in S : \A y \in S : x >= y

(***************************************************************************)
(* The trip list helpers of dive.h                                         *)
(***************************************************************************)
UNGROUPED_DIVE(flag) == flag = NO_TRIP

DIVE_IN_TRIP(flag) == flag = IN_TRIP

\* the dive is not older than the trip's date by more than the threshold
DIVE_FITS_TRIP(divewhen, tripwhen) == tripwhen - TRIP_THRESHOLD <= divewhen

TripPos(tl, id) == CHOOSE k \in 1..Len(tl) : tl[k].id = id

DIVE_TRIP(tl, id) == tl[TripPos(tl, id)]

NewTripId(tl) == IF Len(tl) = 0 THEN 1 ELSE 1 + MaxOf({tl[k].id : k \in 1..Len(tl)})

\* a fresh trip: "all fields default to 0"
alloc_dive(id) == [id |-> id, when |-> 0, number |-> 0]

\* the list is kept ordered by date: the trip goes before the first trip
\* that is not older than it
insert_trip(t, tl) ==
    LET S == {k \in 1..Len(tl) : t.when <= tl[k].when}
        p == IF S = {} THEN Len(tl) + 1 ELSE MinOf(S)
    IN  SubSeq(tl, 1, p - 1) \o <<t>> \o SubSeq(tl, p, Len(tl))

g_list_last(tl) == IF Len(tl) = 0 THEN NoTrip ELSE tl[Len(tl)].id

PREV_TRIP(trip, tl) ==
    IF trip = NoTrip THEN g_list_last(tl)
    ELSE IF TripPos(tl, trip) = 1 THEN NoTrip ELSE tl[TripPos(tl, trip) - 1].id

(***************************************************************************)
(* fill_dive_list: one pass over the dives, newest (highest index) first.  *)
(* L is the loop state: i, the trip cursor, dive_trip, last_trip, the      *)
(* parent row (0 for NULL), and the trip list, trip flags and two stores   *)
(* as built so far.                                                        *)
(***************************************************************************)
GroupRow(t) == [idx |-> -1, nr |-> t.number, date |-> t.when, trip |-> t.id, kids |-> <<>>]

DiveRow(i, w) == [idx |-> i, nr |-> 0, date |-> w, trip |-> NoTrip, kids |-> <<>>]

\* lines 904-911 and 1008-1014: refresh the summary row of the open trip
UpdateParentRow(L) ==
    IF L.dive_trip # NoTrip /\ L.parent # 0
    THEN [L EXCEPT !.tree[L.parent].nr = DIVE_TRIP(L.trips, L.dive_trip).number,
                   !.tree[L.parent].date = DIVE_TRIP(L.trips, L.dive_trip).when]
    ELSE L

\* lines 926-930 and 941-943
NewTrip(L) ==
    LET id == NewTripId(L.trips)
    IN  [L EXCEPT !.trips = insert_trip(alloc_dive(id), @),
                  !.dive_trip = id,
                  !.trip = id]

\* lines 932-952: the dive has a trip or no trips are being created
FindTrip(L, dw, ag) ==
    IF L.trip # NoTrip /\ DIVE_FITS_TRIP(dw, DIVE_TRIP(L.trips, L.trip).when)
    THEN L
    ELSE LET lt == L.trip
             p  == PREV_TRIP(L.trip, L.trips)
         IN  IF ~(p # NoTrip /\ DIVE_FITS_TRIP(dw, DIVE_TRIP(L.trips, p).when))
             THEN IF ag THEN NewTrip([L EXCEPT !.trip = p])
                        ELSE [L EXCEPT !.trip = lt]
             ELSE [L EXCEPT !.trip = p,
                            !.dive_trip = p,
                            !.trips[TripPos(L.trips, p)].number = 0]

\* ChooseTrip with a dive kept out of trips left in the open trip
ChooseTrip_M(L, dw, ag) ==
    LET A == IF L.trip # NoTrip THEN [L EXCEPT !.dive_trip = L.trip] ELSE L
        flag == L.tripflag[L.i]
    IN  IF UNGROUPED_DIVE(flag)
        THEN A
        ELSE IF ag /\ ~DIVE_IN_TRIP(flag)
        THEN IF A.dive_trip = NoTrip
                \/ ~DIVE_FITS_TRIP(dw, DIVE_TRIP(A.trips, A.dive_trip).when)
             THEN NewTrip(A)
             ELSE A
        ELSE FindTrip(A, dw, ag)

\* lines 913-953: choose the trip of dive i
ChooseTrip(L, dw, ag) ==
    LET A == IF L.trip # NoTrip THEN [L EXCEPT !.dive_trip = L.trip] ELSE L
        flag == L.tripflag[L.i]
    IN  IF UNGROUPED_DIVE(flag)
        THEN [A EXCEPT !.parent = 0, !.dive_trip = NoTrip]
        ELSE IF ag /\ ~DIVE_IN_TRIP(flag)
        THEN IF A.dive_trip = NoTrip
                \/ ~DIVE_FITS_TRIP(dw, DIVE_TRIP(A.trips, A.dive_trip).when)
             THEN NewTrip(A)
             ELSE A
        ELSE FindTrip(A, dw, ag)

\* AttachDive with the trip's date left at its first member
AttachDive_M(L, dw) ==
    IF L.dive_trip = NoTrip THEN L
    ELSE LET k  == TripPos(L.trips, L.dive_trip)
             tl == [L.trips EXCEPT ![k].number = @ + 1,
                                   ![k].when = IF @ = 0 THEN dw ELSE @]
             B  == [L EXCEPT !.trips = tl, !.tripflag[L.i] = IN_TRIP,
                             !.att = @ \cup {<<L.i, L.dive_trip>>}]
         IN  IF L.dive_trip # L.last_trip
             THEN [B EXCEPT !.last_trip = L.dive_trip,
                            !.tree = Append(@, GroupRow(tl[k])),
                            !.parent = Len(L.tree) + 1]
             ELSE B

\* lines 954-976: count the dive in dive_trip and open its summary row
AttachDive(L, dw) ==
    IF L.dive_trip = NoTrip THEN L
    ELSE LET k  == TripPos(L.trips, L.dive_trip)
             tl == [L.trips EXCEPT ![k].number = @ + 1, ![k].when = dw]
             B  == [L EXCEPT !.trips = tl, !.tripflag[L.i] = IN_TRIP,
                             !.att = @ \cup {<<L.i, L.dive_trip>>}]
         IN  IF L.dive_trip # L.last_trip
             THEN [B EXCEPT !.last_trip = L.dive_trip,
                            !.tree = Append(@, GroupRow(tl[k])),
                            !.parent = Len(L.tree) + 1]
             ELSE B

\* StoreDive with every dive row at the top level
StoreDive_M(L, dw) ==
    [L EXCEPT !.tree = Append(@, DiveRow(L.i, dw)),
              !.list = Append(@, L.i),
              !.i = L.i - 1]

\* lines 978-1005: append the dive's row to both stores
StoreDive(L, dw) ==
    [L EXCEPT !.tree = IF L.parent = 0
                       THEN Append(@, DiveRow(L.i, dw))
                       ELSE [@ EXCEPT ![L.parent].kids = Append(@, L.i)],
              !.list = Append(@, L.i),
              !.i = L.i - 1]

\* history: the dives met with trips not being created and no trip of the
\* list accepting them
NoteUnfit(L, dw, ag) ==
    IF ~ag /\ \A k \in 1..Len(L.trips) : ~DIVE_FITS_TRIP(dw, L.trips[k].when)
    THEN [L EXCEPT !.unfit = @ \cup {L.i}]
    ELSE L

\* history: the dives handled by the rule of lines 932-952 while a trip at
\* or before the cursor accepted them, each with the nearest such trip
NoteNearest(L, dw, ag) ==
    LET flag == L.tripflag[L.i]
        F == IF L.trip = NoTrip THEN {}
             ELSE {k \in 1..TripPos(L.trips, L.trip) : DIVE_FITS_TRIP(dw, L.trips[k].when)}
    IN  IF ~UNGROUPED_DIVE(flag) /\ ~(ag /\ ~DIVE_IN_TRIP(flag)) /\ F # {}
        THEN [L EXCEPT !.near = @ \cup {<<L.i, L.trips[MaxOf(F)].id>>}]
        ELSE L

\* lines 901-1006: one turn of the loop
FillStep(L, whenf, ag) ==
    StoreDive(AttachDive(ChooseTrip(UpdateParentRow(
                  NoteNearest(NoteUnfit(L, whenf[L.i], ag), whenf[L.i], ag)),
                                    whenf[L.i], ag), whenf[L.i]), whenf[L.i])

RECURSIVE FillLoop(_, _, _)
FillLoop(L, whenf, ag) ==
    IF L.i < 0 THEN UpdateParentRow(L) ELSE FillLoop(FillStep(L, whenf, ag), whenf, ag)

\* lines 885-1014, starting from cleared stores
FillRows(n, whenf, flags, tl, ag) ==
    FillLoop([i |-> n - 1, trip |-> g_list_last(tl), dive_trip |-> NoTrip,
              last_trip |-> NoTrip, parent |-> 0, trips |-> tl,
              tripflag |-> flags, tree |-> <<>>, list |-> <<>>,
              unfit |-> {}, att |-> {}, near |-> {}], whenf, ag)

(***************************************************************************)
(* Rows.  A dive row is named by its DIVE_INDEX i >= 0; the summary row of  *)
(* the k-th top-level entry of the tree store is named -k (its DIVE_INDEX   *)
(* is -1).  c = [tree, list, nr] are the stores and the size of the dive    *)
(* table; S is the record of everything the callbacks change.               *)
(***************************************************************************)
\* get_dive(idx) is NULL unless 0 <= idx < dive_table.nr
get_dive(idx, n) == idx >= 0 /\ idx < n

\* gtk_tree_model_iter_children on the active store
Kids(c, S, r) == IF S.model = "tree" /\ r < 0 THEN c.tree[-r].kids ELSE <<>>

InSeq(x, q) == \E j \in 1..Len(q) : q[j] = x

\* the top-level entry holding dive row i as a child, 0 if none
ParentOf(c, i) ==
    LET P == {k \in 1..Len(c.tree) : InSeq(i, c.tree[k].kids)}
    IN  IF P = {} THEN 0 ELSE MinOf(P)

\* a row is in the view unless it is the child of a collapsed summary row
Visible(c, S, r) ==
    \/ S.model = "list"
    \/ r < 0
    \/ ParentOf(c, r) = 0
    \/ -ParentOf(c, r) \in S.expanded

RECURSIVE TreeRows(_, _)
TreeRows(tree, k) ==
    IF k > Len(tree) THEN <<>>
    ELSE (IF tree[k].idx < 0 THEN <<-k>> \o tree[k].kids ELSE <<tree[k].idx>>)
         \o TreeRows(tree, k + 1)

\* the rows of the active store in gtk_tree_model_foreach order
ActiveRows(c, S) == IF S.model = "tree" THEN TreeRows(c.tree, 1) ELSE c.list

Fail(S) == [S EXCEPT !.failed = TRUE]

\* select_dive counting every call
select_dive_M(c, S, idx, sel) ==
    IF S.failed THEN S
    ELSE IF ~get_dive(idx, c.nr) THEN Fail(S)
    ELSE [S EXCEPT !.amount_selected = @ + (IF sel THEN 1 ELSE -1),
                   !.selected = IF sel THEN @ \cup {idx} ELSE @ \ {idx}]

\* lines 204-210; a NULL dive is dereferenced
select_dive(c, S, idx, sel) ==
    IF S.failed THEN S
    ELSE IF ~get_dive(idx, c.nr) THEN Fail(S)
    ELSE IF (idx \in S.selected) # sel
    THEN [S EXCEPT !.amount_selected = @ + (IF sel THEN 1 ELSE -1),
                   !.selected = IF sel THEN @ \cup {idx} ELSE @ \ {idx}]
    ELSE S

\* lines 254-273 for a dive row (idx >= 0)
check_dive_row(c, S, r) ==
    LET gtk_selected == r \in S.gtksel
        S1 == select_dive(c, S, r, gtk_selected)
    IN  IF S1.failed THEN S1
        ELSE IF gtk_selected THEN [S1 EXCEPT !.selected_dive = r] ELSE S1

\* gtk_tree_selection_select_iter / unselect_iter on a dive row: a row that
\* is not in the view or already has the state is left alone; otherwise
\* modify_selection_cb queues it and selection_cb checks it
GtkSetDiveRow(c, S, r, on) ==
    IF S.failed \/ ~Visible(c, S, r) \/ ((r \in S.gtksel) = on) THEN S
    ELSE check_dive_row(c, [S EXCEPT !.gtksel = IF on THEN @ \cup {r} ELSE @ \ {r}], r)

\* lines 148-166: "yes", "no", or "null" when a NULL dive is dereferenced
RECURSIVE SelectedChildrenFrom(_, _, _, _)
SelectedChildrenFrom(c, S, kids, j) ==
    IF j > Len(kids) THEN "no"
    ELSE IF ~get_dive(kids[j], c.nr) THEN "null"
    ELSE IF kids[j] \in S.selected THEN "yes"
    ELSE SelectedChildrenFrom(c, S, kids, j + 1)

\* selected_children seeing no selected child
selected_children_M(c, S, r) == "no"

selected_children(c, S, r) == SelectedChildrenFrom(c, S, Kids(c, S, r), 1)

\* lines 226-243: the loop over the children of a summary row
RECURSIVE GroupLoop(_, _, _, _, _)
GroupLoop(c, S, kids, j, sel) ==
    IF S.failed \/ j > Len(kids) THEN S
    ELSE LET idx == kids[j]
             S1  == IF j = 1 /\ sel THEN [S EXCEPT !.selected_dive = idx] ELSE S
         IN  IF ~get_dive(idx, c.nr) THEN Fail(S1)
             ELSE IF (idx \in S1.selected) = sel THEN GroupLoop(c, S1, kids, j + 1, sel)
             ELSE GroupLoop(c, GtkSetDiveRow(c, select_dive(c, S1, idx, sel), idx, sel),
                            kids, j + 1, sel)

\* select_dive_group with the loop starting after the first child
select_dive_group_M(c, S, r, sel) ==
    LET sc == selected_children(c, S, r)
    IN  IF S.failed THEN S
        ELSE IF sc = "null" THEN Fail(S)
        ELSE IF sel = (sc = "yes") THEN S
        ELSE GroupLoop(c, S, Kids(c, S, r), 2, sel)

\* lines 215-244
select_dive_group(c, S, r, sel) ==
    LET sc == selected_children(c, S, r)
    IN  IF S.failed THEN S
        ELSE IF sc = "null" THEN Fail(S)
        ELSE IF sel = (sc = "yes") THEN S
        ELSE GroupLoop(c, S, Kids(c, S, r), 1, sel)

\* lines 254-273; pass is the history of the rows checked by the pass
check_selection_cb(c, S, r) ==
    IF S.failed THEN S
    ELSE IF r < 0
    THEN select_dive_group(c, [S EXCEPT !.pass = Append(@, r)], r, r \in S.gtksel)
    ELSE check_dive_row(c, [S EXCEPT !.pass = Append(@, r)], r)

\* lines 276-289: the queued rows are checked in queue order
RECURSIVE selection_cb(_, _, _)
selection_cb(c, S, queue) ==
    IF Len(queue) = 0 THEN S
    ELSE selection_cb(c, check_selection_cb(c, S, Head(queue)), Tail(queue))

\* modify_selection_cb appending every row
modify_selection_cb_M(c, S, queue, r) == Append(queue, r)

\* lines 187-202: summary rows are appended, dive rows are prepended
modify_selection_cb(c, S, queue, r) ==
    IF Len(Kids(c, S, r)) > 0 THEN Append(queue, r) ELSE <<r>> \o queue

\* gtk_tree_selection_select_iter / select_path / unselect_iter on any row
GtkSetRow(c, S, r, on) ==
    IF S.failed \/ ~Visible(c, S, r) \/ ((r \in S.gtksel) = on) THEN S
    ELSE selection_cb(c, [S EXCEPT !.gtksel = IF on THEN @ \cup {r} ELSE @ \ {r},
                                   !.pass = <<>>],
                      modify_selection_cb(c, S, <<>>, r))

\* the queue modify_selection_cb builds when the rows change in this order
RECURSIVE QueueRows(_, _, _, _)
QueueRows(c, S, queue, rows) ==
    IF Len(rows) = 0 THEN queue
    ELSE QueueRows(c, S, modify_selection_cb(c, S, queue, Head(rows)), Tail(rows))

\* a change of the selection over several rows of the view (a range, or a
\* click that replaces the selection): every row is passed to
\* modify_selection_cb and changed, then selection_cb runs once
GtkSetRows(c, S, rows) ==
    LET R   == {rows[j] : j \in 1..Len(rows)}
        sel == (S.gtksel \ R) \cup (R \ S.gtksel)
    IN  selection_cb(c, [S EXCEPT !.gtksel = sel, !.pass = <<>>, !.queued = rows],
                     QueueRows(c, S, <<>>, rows))

\* lines 125-146
RECURSIVE ExpandedLoop(_, _, _, _)
ExpandedLoop(c, S, kids, j) ==
    IF S.failed \/ j > Len(kids) THEN S
    ELSE IF ~get_dive(kids[j], c.nr) THEN Fail(S)
    ELSE ExpandedLoop(c, GtkSetDiveRow(c, S, kids[j], kids[j] \in S.selected), kids, j + 1)

\* row_expanded_cb leaving the rows as the view shows them
row_expanded_cb_M(c, S, r) == S

row_expanded_cb(c, S, r) == ExpandedLoop(c, S, Kids(c, S, r), 1)

\* row_collapsed_cb selecting the summary row whatever its children are
row_collapsed_cb_M(c, S, r) ==
    LET sc == selected_children(c, S, r)
    IN  IF S.failed THEN S
        ELSE IF sc = "null" THEN Fail(S)
        ELSE GtkSetRow(c, S, r, TRUE)

\* lines 170-177
row_collapsed_cb(c, S, r) ==
    LET sc == selected_children(c, S, r)
    IN  IF S.failed THEN S
        ELSE IF sc = "null" THEN Fail(S)
        ELSE IF sc = "yes" THEN GtkSetRow(c, S, r, TRUE)
        ELSE S

\* gtk_tree_view_expand_row: a collapsed summary row is expanded and the
\* row-expanded handler runs when it is connected
GtkExpandRow(c, S, r, connected) ==
    IF S.failed \/ r >= 0 \/ r \in S.expanded \/ Len(Kids(c, S, r)) = 0 THEN S
    ELSE IF connected THEN row_expanded_cb(c, [S EXCEPT !.expanded = @ \cup {r}], r)
    ELSE [S EXCEPT !.expanded = @ \cup {r}]

\* gtk_tree_view_collapse_row: the children leave the view and the
\* selection, then the row-collapsed handler runs
GtkCollapseRow(c, S, r) ==
    IF S.failed \/ r \notin S.expanded THEN S
    ELSE row_collapsed_cb(c, [S EXCEPT !.expanded = @ \ {r},
                                       !.gtksel = @ \ {Kids(c, S, r)[j] : j \in 1..Len(Kids(c, S, r))}], r)

\* gtk_tree_view_expand_to_path: every ancestor and the row itself
GtkExpandToPath(c, S, r) ==
    IF r < 0 THEN GtkExpandRow(c, S, r, TRUE)
    ELSE IF S.model = "tree" /\ ParentOf(c, r) # 0
    THEN GtkExpandRow(c, S, -ParentOf(c, r), TRUE)
    ELSE S

(***************************************************************************)
(* The switch between the two stores on a sort-column change.               *)
(***************************************************************************)
UNSORTED == [col |-> -2, order |-> GTK_SORT_ASCENDING]

SortState(S, m) == IF m = "tree" THEN S.treesort ELSE S.listsort

\* SetSortState with every column sorted ascending
SetSortState_M(S, m, st) ==
    IF m = "tree" THEN [S EXCEPT !.treesort = [st EXCEPT !.order = GTK_SORT_ASCENDING]]
    ELSE [S EXCEPT !.listsort = [st EXCEPT !.order = GTK_SORT_ASCENDING]]

SetSortState(S, m, st) ==
    IF m = "tree" THEN [S EXCEPT !.treesort = st] ELSE [S EXCEPT !.listsort = st]

\* set_selected selecting every row that has a dive
set_selected_M(c, S, r) ==
    LET kids == Kids(c, S, r)
        idx  == IF r >= 0 THEN r ELSE IF Len(kids) > 0 THEN kids[1] ELSE -1
        sel  == get_dive(idx, c.nr)
    IN  IF S.failed THEN S
        ELSE IF sel THEN GtkSetRow(c, GtkExpandToPath(c, S, r), r, TRUE)
        ELSE S

\* lines 1212-1235: one row of the pass over the new store
set_selected(c, S, r) ==
    LET kids == Kids(c, S, r)
        idx  == IF r >= 0 THEN r ELSE IF Len(kids) > 0 THEN kids[1] ELSE -1
        sel  == get_dive(idx, c.nr) /\ idx \in S.selected
    IN  IF S.failed THEN S
        ELSE IF sel THEN GtkSetRow(c, GtkExpandToPath(c, S, r), r, TRUE)
        ELSE S

\* line 1287: gtk_tree_model_foreach(dive_list.model, set_selected, selection)
RECURSIVE ForeachSetSelected(_, _, _)
ForeachSetSelected(c, S, rows) ==
    IF Len(rows) = 0 THEN S
    ELSE ForeachSetSelected(c, set_selected(c, S, Head(rows)), Tail(rows))

\* line 1285: the view starts on the new store with nothing selected and
\* every summary row collapsed
gtk_tree_view_set_model(S) == [S EXCEPT !.gtksel = {}, !.expanded = {}]

RECURSIVE sort_column_change_cb(_, _, _)

\* ModelFor with the two stores exchanged
ModelFor_M(colid) == IF colid = DIVE_DATE THEN "list" ELSE "tree"

\* lines 1278-1281: the tree store for the date column, the list store else
ModelFor(colid) == IF colid = DIVE_DATE THEN "tree" ELSE "list"

\* update_column_and_order leaving second_call set
update_column_and_order_M(c, S, colid) ==
    LET want == [col |-> colid, order |-> S.sortorder[colid]]
        S1   == [S EXCEPT !.second_call = TRUE]
    IN  IF SortState(S1, S1.model) = want THEN S1
        ELSE sort_column_change_cb(c, SetSortState(S1, S1.model, want), S1.model)

\* lines 1237-1249; the store notifies sort_column_change_cb when its sort
\* column or order really changes
update_column_and_order(c, S, colid) ==
    LET want == [col |-> colid, order |-> S.sortorder[colid]]
        S1   == [S EXCEPT !.second_call = TRUE]
        S2   == IF SortState(S1, S1.model) = want THEN S1
                ELSE LET B == SetSortState(S1, S1.model, want)
                         N == sort_column_change_cb(c, B, B.model)
                     IN  [N EXCEPT !.reent =
                            IF /\ N.lastcol = B.lastcol
                               /\ N.sortorder = B.sortorder
                               /\ N.model = B.model
                               /\ N.recon = B.recon
                            THEN "suppressed" ELSE "acted"]
    IN  [S2 EXCEPT !.second_call = FALSE]

\* sort_column_change_cb recording the direction of the last column for
\* every column
sort_column_change_cb_M(c, S, src) ==
    LET colid == SortState(S, src).col
        order == SortState(S, src).order
        S1 == [S EXCEPT !.lastcol = colid, !.model = ModelFor(colid)]
    IN  IF S.second_call THEN S
        ELSE IF colid = S.lastcol THEN [S EXCEPT !.sortorder = [k \in SortKeys |-> order]]
        ELSE IF S1.model # S.model
        THEN LET S2 == update_column_and_order(c, gtk_tree_view_set_model(S1), colid)
             IN  ForeachSetSelected(c, [S2 EXCEPT !.recon = @ + 1], ActiveRows(c, S2))
        ELSE IF order # S.sortorder[colid]
        THEN update_column_and_order(c, S1, colid)
        ELSE S1

\* lines 1261-1293; src is the store that sent the notification
sort_column_change_cb(c, S, src) ==
    LET colid == SortState(S, src).col
        order == SortState(S, src).order
        S1 == [S EXCEPT !.lastcol = colid, !.model = ModelFor(colid)]
    IN  IF S.second_call THEN S
        ELSE IF colid = S.lastcol THEN [S EXCEPT !.sortorder[colid] = order]
        ELSE IF S1.model # S.model
        THEN LET S2 == update_column_and_order(c, gtk_tree_view_set_model(S1), colid)
             IN  ForeachSetSelected(c, [S2 EXCEPT !.recon = @ + 1], ActiveRows(c, S2))
        ELSE IF order # S.sortorder[colid]
        THEN update_column_and_order(c, S1, colid)
        ELSE S1

\* a click on the header of column col: the store of the view gets the
\* column ascending, or the other order if it is sorted by it already
gtk_tree_view_column_clicked(c, S, col) ==
    LET cur == SortState(S, S.model)
        new == [col |-> col,
                order |-> IF cur.col = col /\ cur.order = GTK_SORT_ASCENDING
                          THEN GTK_SORT_DESCENDING ELSE GTK_SORT_ASCENDING]
    IN  sort_column_change_cb(c, SetSortState(S, S.model, new), S.model)

(***************************************************************************)
(* The end of fill_dive_list and the full rebuild.                          *)
(***************************************************************************)
\* lines 1016-1024: select the first leaf of the active store
SelectFirstLeaf(c, S, connected) ==
    LET rows == ActiveRows(c, S)
        r    == rows[1]
        S1   == GtkExpandRow(c, [S EXCEPT !.selected_dive = -1], r, connected)
        leaf == IF r >= 0 THEN r ELSE Kids(c, S, r)[1]
        S2   == [S1 EXCEPT !.selected_dive = leaf]
    IN  IF Len(rows) = 0 THEN S
        ELSE IF r < 0 /\ Len(Kids(c, S, r)) = 0 THEN [S EXCEPT !.selected_dive = -1]
        ELSE IF S1.failed THEN S1
        ELSE IF connected THEN GtkSetRow(c, S2, leaf, TRUE)
        ELSE [S2 EXCEPT !.gtksel = @ \cup {leaf}]

\* gtk_tree_store_clear of the store on view: no row is left to be
\* selected or expanded
gtk_tree_store_clear(S) == [S EXCEPT !.gtksel = {}, !.expanded = {}]

\* lines 885-1025; the result holds the new trip list, trip flags, stores
\* and callback state
fill_dive_list(n, whenf, flags, tl, ag, S, connected) ==
    LET L == FillRows(n, whenf, flags, tl, ag)
        c == [tree |-> L.tree, list |-> L.list, nr |-> n]
    IN  [trips |-> L.trips, tripflag |-> L.tripflag, tree |-> L.tree,
         list |-> L.list, S |-> SelectFirstLeaf(c, S, connected),
         unfit |-> L.unfit, att |-> L.att, near |-> L.near]

\* lines 1027-1033
dive_list_update_dives(n, whenf, flags, tl, ag, S) ==
    fill_dive_list(n, whenf, flags, tl, ag, gtk_tree_store_clear(S), TRUE)

(***************************************************************************)
(* The columns of the dive rows.  R = [dive, tree, list, depth] holds the   *)
(* dives, the columns of their rows in the two stores and, as history, the  *)
(* deepest nesting of fill_one_dive reached.                                *)
(***************************************************************************)
\* lines 503-511
RECURSIVE total_weight(_, _)
total_weight(ws, i) == IF i > Len(ws) THEN 0 ELSE ws[i] + total_weight(ws, i + 1)

\* lines 796-805: the columns fill_one_dive sets
DiveCols(d) == [number |-> d.number, rating |-> d.rating, sac |-> d.sac, otu |-> d.otu,
                totalweight |-> total_weight(d.weightsystem, 1)]

\* lines 980-1005: the columns of a new row; SAC is 0 and the OTU and the
\* weight are not set
NewCols(d) == [number |-> d.number, rating |-> d.rating, sac |-> 0, otu |-> 0,
               totalweight |-> 0]

RowsOf(c, store) == IF store = "tree" THEN TreeRows(c.tree, 1) ELSE c.list

RECURSIVE ForeachSetOneDive(_, _, _, _, _, _, _)

\* fill_one_dive leaving the other store alone
fill_one_dive_M(R, c, active, store, idx, level) ==
    [R EXCEPT ![store][idx] = DiveCols(R.dive[idx]),
              !.depth = IF level > @ THEN level ELSE @]

\* lines 785-818: the row of the store is set, then the row of the other
\* store unless that is the store on view
fill_one_dive(R, c, active, store, idx, level) ==
    LET R1 == [R EXCEPT ![store][idx] = DiveCols(R.dive[idx]),
                        !.depth = IF level > @ THEN level ELSE @]
        othermodel == IF store = "tree" THEN "list" ELSE "tree"
    IN  IF othermodel # active
        THEN ForeachSetOneDive(R1, c, active, othermodel, RowsOf(c, othermodel), idx, level + 1)
        ELSE R1

\* lines 820-840; data is -1 for NULL; the result says whether the pass
\* over the rows stops
set_one_dive(R, c, active, store, r, data, level) ==
    IF r < 0 THEN [R |-> R, stop |-> FALSE]
    ELSE IF ~get_dive(r, c.nr) THEN [R |-> R, stop |-> TRUE]
    ELSE IF data # -1 /\ r # data THEN [R |-> R, stop |-> FALSE]
    ELSE [R |-> fill_one_dive(R, c, active, store, r, level), stop |-> r = data]

\* gtk_tree_model_foreach(store, set_one_dive, data)
ForeachSetOneDive(R, c, active, store, rows, data, level) ==
    IF Len(rows) = 0 THEN R
    ELSE LET X == set_one_dive(R, c, active, store, Head(rows), data, level)
         IN  IF X.stop THEN X.R
             ELSE ForeachSetOneDive(X.R, c, active, store, Tail(rows), data, level)

\* lines 842-847
flush_divelist(R, c, active, dive) ==
    ForeachSetOneDive([R EXCEPT !.depth = 0], c, active, active, RowsOf(c, active), dive, 0)

\* lines 856-871
update_dive_list_units(R, c, active) ==
    ForeachSetOneDive([R EXCEPT !.depth = 0], c, active, active, RowsOf(c, active), -1, 0)

\* lines 978-1015: the columns of the rows after fill_dive_list
FillCols(dives, c, active) ==
    update_dive_list_units([dive |-> dives,
                            tree |-> [i \in DiveIdx |-> NewCols(dives[i])],
                            list |-> [i \in DiveIdx |-> NewCols(dives[i])],
                            depth |-> 0], c, active)

\* a dive as it is read from the log
DefaultDive(i) == [number |-> i + 1, rating |-> 0, sac |-> 0, otu |-> 0,
                   weightsystem |-> <<0, 0>>]

\* the dives an edit can leave
DiveEdits ==
    {[number |-> 7, rating |-> 3, sac |-> 12, otu |-> 20, weightsystem |-> <<2, 3>>],
     [number |-> 8, rating |-> 5, sac |-> 15, otu |-> 0, weightsystem |-> <<4, 0>>]}

(***************************************************************************)
(* Gas statistics.  A cylinder is [o2, he, size] (permille, permille, ml).  *)
(***************************************************************************)
AIR_PERMILLE == 209

\* a cylinder slot nothing was entered for
cylinder_none(cyl) == cyl.o2 = 0 /\ cyl.he = 0 /\ cyl.size = 0

\* lines 473-494: one cylinder of the scan; a = [maxo2, maxhe, mino2]
GasStep(a, cyl) ==
    LET o2 == IF cyl.o2 = 0 THEN AIR_PERMILLE ELSE cyl.o2
        he == cyl.he
        a1 == IF o2 < a.mino2 THEN [a EXCEPT !.mino2 = o2] ELSE a
    IN  IF cylinder_none(cyl) THEN a
        ELSE IF he > a1.maxhe THEN [a1 EXCEPT !.maxhe = he, !.maxo2 = o2]
        ELSE IF he < a1.maxhe THEN a1
        ELSE IF o2 <= a1.maxo2 THEN a1
        ELSE [a1 EXCEPT !.maxhe = he, !.maxo2 = o2]

RECURSIVE GasScan(_, _, _)
GasScan(a, cyls, i) ==
    IF i > Len(cyls) THEN a ELSE GasScan(GasStep(a, cyls[i]), cyls, i + 1)

\* GasNormalise with the low end of the range left alone
GasNormalise_M(a) ==
    IF a.maxhe = 0 /\ a.maxo2 = AIR_PERMILLE /\ a.mino2 = a.maxo2
    THEN [a EXCEPT !.maxo2 = 0]
    ELSE a

\* lines 495-497: all air shows and sorts as zero
GasNormalise(a) ==
    IF a.maxhe = 0 /\ a.maxo2 = AIR_PERMILLE /\ a.mino2 = a.maxo2
    THEN [a EXCEPT !.maxo2 = 0, !.mino2 = 0]
    ELSE a

\* lines 468-501: the result is <<o2, he, o2low>>
get_dive_gas(cyls) ==
    LET a == GasNormalise(GasScan([maxo2 |-> -1, maxhe |-> -1, mino2 |-> 1000], cyls, 1))
    IN  <<a.maxo2, a.maxhe, a.mino2>>

O2Values == {0, AIR_PERMILLE, 320}

HeValues == {0, 350}

SizeValues == {0, 12}

Cylinders == [o2 : O2Values, he : HeValues, size : SizeValues]

NoCylinder == [o2 |-> 0, he |-> 0, size |-> 0]

\* nitrox_sort_func without the tie break on the lowest oxygen
nitrox_sort_func_M(a, b) ==
    LET ga == get_dive_gas(a)
        gb == get_dive_gas(b)
    IN  IF ga[2] = gb[2] THEN ga[1] - gb[1] ELSE ga[2] - gb[2]

\* lines 535-560: a and b are the cylinders of the two dives; helium first,
\* then the oxygen of the maximal gas, then the lowest oxygen
nitrox_sort_func(a, b) ==
    LET ga == get_dive_gas(a)
        gb == get_dive_gas(b)
    IN  IF ga[2] = gb[2]
        THEN IF ga[1] = gb[1] THEN ga[3] - gb[3] ELSE ga[1] - gb[1]
        ELSE ga[2] - gb[2]

\* the cylinders the sorted dives are drawn from: none, or a filled one
SortCylinders == {cyl \in Cylinders : cyl.size # 0} \cup {NoCylinder}

(***************************************************************************)
(* Air use and SAC.  Here a dive is [duration, meandepth, sample, cylinder] *)
(* with sample a sequence of [time, depth] (s, mm) and cylinder a sequence  *)
(* of [size, start, end, sample_start, sample_end] (ml, mbar).  The doubles *)
(* of the code are kept exact: a pressure in atm and an air use in litres   *)
(* are held as multiples of 1/1013250.                                      *)
(***************************************************************************)
\* mbar / 1013.25, as a multiple of 1/1013250 atm
to_ATM(mbar) == mbar * 1000

\* C division and conversion to int: towards zero
TruncDiv(a, b) ==
    IF (a >= 0) = (b > 0) THEN (IF a >= 0 THEN a ELSE -a) \div (IF b > 0 THEN b ELSE -b)
    ELSE -((IF a >= 0 THEN a ELSE -a) \div (IF b > 0 THEN b ELSE -b))

\* AirStep counting the pressure drop of a cylinder whatever its size
AirStep_M(airuse, cyl) ==
    LET start == IF cyl.start # 0 THEN cyl.start ELSE cyl.sample_start
        end   == IF cyl.end # 0 THEN cyl.end ELSE cyl.sample_end
        kilo_atm == (to_ATM(start) - to_ATM(end)) \div 1000
    IN  airuse + kilo_atm * (IF cyl.size = 0 THEN 1 ELSE cyl.size)

\* lines 682-695: one cylinder of the sum
AirStep(airuse, cyl) ==
    LET start == IF cyl.start # 0 THEN cyl.start ELSE cyl.sample_start
        end   == IF cyl.end # 0 THEN cyl.end ELSE cyl.sample_end
        kilo_atm == (to_ATM(start) - to_ATM(end)) \div 1000
    IN  IF cyl.size = 0 THEN airuse
        ELSE airuse + kilo_atm * cyl.size

\* lines 676-698: litres of air, as a multiple of 1/1013250
RECURSIVE AirLoop(_, _, _)
AirLoop(airuse, cyls, i) ==
    IF i > Len(cyls) THEN airuse ELSE AirLoop(AirStep(airuse, cyls[i]), cyls, i + 1)

calculate_airuse(cyls) == AirLoop(0, cyls, 1)

\* lines 714-718: the first sample at or after end that is not at the surface
RECURSIVE SurfaceEnd(_, _)
SurfaceEnd(sample, end) ==
    IF end <= Len(sample) /\ sample[end].depth < 100 THEN SurfaceEnd(sample, end + 1) ELSE end

\* lines 711-726: the duration less the surface intervals; samples are
\* numbered from 1, so i and end are one more than in the code
RECURSIVE SacDuration(_, _, _)
SacDuration(sample, i, duration) ==
    IF i > Len(sample) THEN duration
    ELSE IF sample[i].depth < 100
    THEN LET end == SurfaceEnd(sample, i + 1)
         IN  IF end <= Len(sample)
             THEN SacDuration(sample, end + 1,
                              duration - (sample[end - 1].time - sample[i].time))
             ELSE SacDuration(sample, i + 1, duration)
    ELSE SacDuration(sample, i + 1, duration)

INT_MAX == 2147483647

INT_MIN == -INT_MAX - 1

\* calculate_sac returning the air use in place of 0 when there is no duration
SacEarly_M(airuse, duration) == IF airuse = 0 THEN {0} ELSE IF duration = 0 THEN {airuse} ELSE {}

\* lines 705-709: the values returned before any division, none if the
\* function goes on
SacEarly(airuse, duration) == IF airuse = 0 \/ duration = 0 THEN {0} ELSE {}

\* lines 700-733: the values calculate_sac can return.  airuse / pressure *
\* 60 / duration * 1000 with pressure = (10000 + meandepth) / 10000 is
\* airuse_units * 2400000 / (4053 * (10000 + meandepth) * duration); a
\* division by a duration of 0 gives an infinity whose conversion to int is
\* undefined
calculate_sac(dive) ==
    LET airuse   == calculate_airuse(dive.cylinder)
        duration == SacDuration(dive.sample, 1, dive.duration)
        pressure == 10000 + dive.meandepth
    IN  IF SacEarly(airuse, dive.duration) # {} THEN SacEarly(airuse, dive.duration)
        ELSE IF duration = 0 THEN {INT_MIN, 0, INT_MAX}
        ELSE {TruncDiv(TruncDiv(airuse * 2400000, 4053), pressure * duration)}

(***************************************************************************)
(* State after dive_list_create                                             *)
(***************************************************************************)
\* history of the operation that produced the state: its name and argument,
\* the dives selected before it, what became of a nested sort notification,
\* the reconciliation passes it ran, the last pass of selection_cb and the
\* order its rows changed in, the nesting of fill_one_dive, and for a fill:
\* whether it started from an empty trip list with every dive unassigned, the dives no trip
\* accepted, the trip each dive was counted in, and the nearest accepting
\* trip of the dives that had one
History(name, arg, on, presel, S, fresh, unfit, att, near) ==
    [op |-> name, arg |-> arg, on |-> on, presel |-> presel, reent |-> S.reent,
     recon |-> S.recon, fresh |-> fresh, unfit |-> unfit, att |-> att, near |-> near,
     pass |-> S.pass, queued |-> S.queued, depth |-> S.depth]

Fresh(n, flags, tl) == Len(tl) = 0 /\ \A i \in DiveIdx : i < n => flags[i] = TF_NONE

\* the callback state before the first fill: nothing selected, sorted by date
S0 == [selected |-> {}, amount_selected |-> 0, selected_dive |-> 0,
       gtksel |-> {}, expanded |-> {}, failed |-> FALSE, model |-> "tree",
       lastcol |-> DIVE_DATE,
       sortorder |-> [k \in SortKeys |-> GTK_SORT_DESCENDING],
       treesort |-> UNSORTED, listsort |-> UNSORTED, second_call |-> FALSE,
       reent |-> "none", recon |-> 0, pass |-> <<>>, queued |-> <<>>, depth |-> 0]

Cur == [selected |-> selected, amount_selected |-> amount_selected,
        selected_dive |-> selected_dive, gtksel |-> gtksel, expanded |-> expanded,
        failed |-> failed, model |-> model, lastcol |-> lastcol,
        sortorder |-> sortorder, treesort |-> treesort, listsort |-> listsort,
        second_call |-> second_call, reent |-> "none", recon |-> 0, pass |-> <<>>,
        queued |-> <<>>, depth |-> 0]

Ctx == [tree |-> treemodel, list |-> listmodel, nr |-> nr]

\* the dive tables a log file can hold: dates ascending with the index
WhenTables(n) ==
    {w \in [DiveIdx -> Times \cup {0}] :
        /\ \A i \in DiveIdx : (i < n) = (w[i] # 0)
        /\ \A i, j \in DiveIdx : i < j /\ j < n => w[i] < w[j]}

FlagTables(n, F) ==
    {f \in [DiveIdx -> TripFlags] : \A i \in DiveIdx : IF i < n THEN f[i] \in F ELSE f[i] = TF_NONE}

\* the lists of at most n trips a log file can hold: dates ascending, no
\* dive counted yet
TripListsUpTo(n) ==
    {<<>>} \cup
    UNION {{tl \in [1..m -> [id : 1..m, when : Times, number : {0}]] :
              /\ \A k \in 1..m : tl[k].id = k
              /\ \A j, k \in 1..m : j < k => tl[j].when < tl[k].when} : m \in 1..n}

TripLists == TripListsUpTo(MaxInitTrips)

FileTripLists == TripListsUpTo(MaxFileTrips)

\* the assignments to the callback state
SetS(S) ==
    /\ selected' = S.selected
    /\ amount_selected' = S.amount_selected
    /\ selected_dive' = S.selected_dive
    /\ gtksel' = S.gtksel
    /\ expanded' = S.expanded
    /\ failed' = S.failed
    /\ model' = S.model
    /\ lastcol' = S.lastcol
    /\ sortorder' = S.sortorder
    /\ treesort' = S.treesort
    /\ listsort' = S.listsort
    /\ second_call' = S.second_call

\* lines 1295-1381: the stores are filled before any handler is connected
dive_list_create(n, w, f, tl) ==
    LET R == fill_dive_list(n, w, f, tl, FALSE, S0, FALSE)
    IN  /\ nr = n
        /\ when = w
        /\ autogroup = FALSE
        /\ tripflag = R.tripflag
        /\ dive_trip_list = R.trips
        /\ treemodel = R.tree
        /\ listmodel = R.list
        /\ selected = R.S.selected
        /\ amount_selected = R.S.amount_selected
        /\ selected_dive = R.S.selected_dive
        /\ gtksel = R.S.gtksel
        /\ expanded = R.S.expanded
        /\ failed = R.S.failed
        /\ model = R.S.model
        /\ lastcol = R.S.lastcol
        /\ sortorder = R.S.sortorder
        /\ treesort = R.S.treesort
        /\ listsort = R.S.listsort
        /\ second_call = R.S.second_call
        /\ last = History("create", 0, FALSE, {}, R.S, Fresh(n, f, tl), R.unfit, R.att, R.near)
        /\ rebuilds = 0
        /\ divedata = [i \in DiveIdx |-> DefaultDive(i)]
        /\ LET C == FillCols([i \in DiveIdx |-> DefaultDive(i)],
                             [tree |-> R.tree, list |-> R.list, nr |-> n], R.S.model)
           IN  treecols = C.tree /\ listcols = C.list

\* the statistics are not applied while the list is operated
NoGas ==
    /\ gdive = [i \in 1..MaxCyl |-> NoCylinder]
    /\ gres = <<>>

\* a log of MaxDives dives, each in a trip of the file or kept out of trips
Init ==
    /\ \E w \in WhenTables(MaxDives) : \E f \in FlagTables(MaxDives, {IN_TRIP, NO_TRIP}) :
         \E tl \in TripLists : dive_list_create(MaxDives, w, f, tl)
    /\ NoGas

\* the same logs with the dives one time unit apart
InitOne ==
    /\ \E f \in FlagTables(MaxDives, {IN_TRIP, NO_TRIP}) : \E tl \in TripLists :
         dive_list_create(MaxDives, [i \in DiveIdx |-> i + 1], f, tl)
    /\ NoGas

\* any log of at most MaxDives dives and MaxFileTrips trips
InitTrip ==
    /\ \E n \in 0..MaxDives : \E w \in WhenTables(n) : \E f \in FlagTables(n, TripFlags) :
         \E tl \in FileTripLists : dive_list_create(n, w, f, tl)
    /\ NoGas

(***************************************************************************)
(* Operations                                                               *)
(***************************************************************************)
Op(name, arg, on, S) == History(name, arg, on, selected, S, FALSE, {}, {}, {})

StoreUnchanged == UNCHANGED <<nr, when, tripflag, autogroup, dive_trip_list,
                              treemodel, listmodel, rebuilds, divedata, treecols,
                              listcols, gdive, gres>>

VisibleRows == {r \in {ActiveRows(Ctx, Cur)[j] : j \in 1..Len(ActiveRows(Ctx, Cur))} :
                  Visible(Ctx, Cur, r)}

\* the user toggles one dive row of the view
ToggleDiveRow(r) ==
    /\ ~failed
    /\ r \in VisibleRows /\ r >= 0
    /\ LET S == GtkSetRow(Ctx, Cur, r, r \notin gtksel)
       IN  SetS(S) /\ last' = Op("toggle_dive", r, r \notin gtksel, S)
    /\ StoreUnchanged

\* the user toggles one summary row of the view
ToggleGroupRow(r) ==
    /\ ~failed
    /\ r \in VisibleRows /\ r < 0
    /\ LET S == GtkSetRow(Ctx, Cur, r, r \notin gtksel)
       IN  SetS(S) /\ last' = Op("toggle_group", r, r \notin gtksel, S)
    /\ StoreUnchanged

\* the user expands a collapsed summary row
ExpandRow(r) ==
    /\ ~failed
    /\ r \in VisibleRows /\ r < 0 /\ r \notin expanded
    /\ LET S == GtkExpandRow(Ctx, Cur, r, TRUE)
       IN  SetS(S) /\ last' = Op("expand", r, TRUE, S)
    /\ StoreUnchanged

\* the user collapses an expanded summary row
CollapseRow(r) ==
    /\ ~failed
    /\ r \in expanded
    /\ LET S == GtkCollapseRow(Ctx, Cur, r)
       IN  SetS(S) /\ last' = Op("collapse", r, FALSE, S)
    /\ StoreUnchanged

\* the user clicks the header of a sortable column
SortColumnChange(col) ==
    /\ ~failed
    /\ LET S == gtk_tree_view_column_clicked(Ctx, Cur, col)
       IN  SetS(S) /\ last' = Op("sort", col, FALSE, S)
    /\ StoreUnchanged

RebuildWith(ag, name) ==
    LET R == dive_list_update_dives(nr, when, tripflag, dive_trip_list, ag, Cur)
    IN  /\ ~failed
        /\ rebuilds < MaxRebuilds
        /\ rebuilds' = rebuilds + 1
        /\ autogroup' = ag
        /\ tripflag' = R.tripflag
        /\ dive_trip_list' = R.trips
        /\ treemodel' = R.tree
        /\ listmodel' = R.list
        /\ SetS(R.S)
        /\ last' = History(name, 0, ag, selected, R.S,
                            Fresh(nr, tripflag, dive_trip_list), R.unfit, R.att, R.near)
        /\ LET C == FillCols(divedata, [tree |-> R.tree, list |-> R.list, nr |-> nr],
                             R.S.model)
           IN  treecols' = C.tree /\ listcols' = C.list
        /\ UNCHANGED <<nr, when, divedata, gdive, gres>>

\* dive_list_update_dives after a change of the dive table
Rebuild == RebuildWith(autogroup, "rebuild")

\* the autogroup setting is switched and the list is rebuilt
SetAutogroup(b) == b # autogroup /\ RebuildWith(b, "autogroup")

\* the user changes the selection of several rows of the view at once
SelectRows(rows) ==
    /\ ~failed
    /\ \A j \in 1..Len(rows) : rows[j] \in VisibleRows
    /\ \A j, k \in 1..Len(rows) : j # k => rows[j] # rows[k]
    /\ LET S == GtkSetRows(Ctx, Cur, rows)
       IN  SetS(S) /\ last' = Op("select_rows", 0, FALSE, S)
    /\ StoreUnchanged

\* the orders in which up to MaxBatch rows of the view can change
Batches == UNION {[1..m -> VisibleRows] : m \in 1..MaxBatch}

\* the selection is changed several rows at once on the grouped view
NextSelect ==
    \/ \E rows \in Batches : SelectRows(rows)
    \/ \E k \in 1..MaxDives : ExpandRow(-k)
    \/ \E k \in 1..MaxDives : CollapseRow(-k)

SpecSelect == InitOne /\ [][NextSelect]_vars

ListUnchanged ==
    UNCHANGED <<nr, when, tripflag, autogroup, dive_trip_list, treemodel, listmodel,
                model, selected, amount_selected, selected_dive, gtksel, expanded,
                lastcol, sortorder, treesort, listsort, second_call, failed, rebuilds,
                gdive, gres>>

Cols == [dive |-> divedata, tree |-> treecols, list |-> listcols, depth |-> 0]

\* dive i is edited; its rows are not refreshed yet
EditDive(i, d) ==
    /\ ~failed
    /\ i < nr
    /\ d # divedata[i]
    /\ divedata' = [divedata EXCEPT ![i] = d]
    /\ last' = Op("edit", i, FALSE, Cur)
    /\ UNCHANGED <<treecols, listcols>>
    /\ ListUnchanged

\* flush_divelist(dive i) after an edit
FlushDivelist(i) ==
    /\ ~failed
    /\ i < nr
    /\ LET R == flush_divelist(Cols, Ctx, model, i)
       IN  /\ treecols' = R.tree
           /\ listcols' = R.list
           /\ last' = Op("flush", i, FALSE, [Cur EXCEPT !.depth = R.depth])
    /\ UNCHANGED divedata
    /\ ListUnchanged

\* update_dive_list_units after a change of the units
UpdateDiveListUnits ==
    /\ ~failed
    /\ LET R == update_dive_list_units(Cols, Ctx, model)
       IN  /\ treecols' = R.tree
           /\ listcols' = R.list
           /\ last' = Op("units", -1, FALSE, [Cur EXCEPT !.depth = R.depth])
    /\ UNCHANGED divedata
    /\ ListUnchanged

\* dives are edited and their rows refreshed, on either store
NextFlush ==
    \/ \E i \in DiveIdx : \E d \in DiveEdits \cup {DefaultDive(i)} : EditDive(i, d)
    \/ \E i \in DiveIdx : FlushDivelist(i)
    \/ UpdateDiveListUnits
    \/ \E col \in {DIVE_DATE, DIVE_DEPTH} : SortColumnChange(col)

\* a log with two dives in a trip and one kept out of trips
InitFlush ==
    /\ dive_list_create(MaxDives, [i \in DiveIdx |-> i + 1],
                        [i \in DiveIdx |-> IF i = 0 THEN NO_TRIP ELSE IN_TRIP],
                        <<[id |-> 1, when |-> 1, number |-> 0]>>)
    /\ NoGas

SpecFlush == InitFlush /\ [][NextFlush]_vars

\* the selection is operated and the sort column is changed
NextAll ==
    \/ \E r \in DiveIdx : ToggleDiveRow(r)
    \/ \E k \in 1..MaxDives : ToggleGroupRow(-k)
    \/ \E k \in 1..MaxDives : ExpandRow(-k)
    \/ \E k \in 1..MaxDives : CollapseRow(-k)
    \/ \E col \in {DIVE_DATE, DIVE_DEPTH} : SortColumnChange(col)

SpecAll == InitOne /\ [][NextAll]_vars

\* the selection is operated on the grouped view
Next ==
    \/ \E r \in DiveIdx : ToggleDiveRow(r)
    \/ \E k \in 1..MaxDives : ToggleGroupRow(-k)
    \/ \E k \in 1..MaxDives : ExpandRow(-k)
    \/ \E k \in 1..MaxDives : CollapseRow(-k)

Spec == Init /\ [][Next]_vars

\* the sort column is changed between selection changes
NextSort ==
    \/ \E r \in DiveIdx : ToggleDiveRow(r)
    \/ \E k \in 1..MaxDives : ToggleGroupRow(-k)
    \/ \E col \in SortKeys : SortColumnChange(col)

SpecSort == InitOne /\ [][NextSort]_vars

\* the list is rebuilt, with or without a change of the autogroup setting
NextTrip ==
    \/ Rebuild
    \/ \E b \in BOOLEAN : SetAutogroup(b)

SpecTrip == InitTrip /\ [][NextTrip]_vars

\* the list is rebuilt between selection changes
NextRebuild ==
    \/ \E r \in DiveIdx : ToggleDiveRow(r)
    \/ \E k \in 1..MaxDives : ToggleGroupRow(-k)
    \/ Rebuild

SpecRebuild == InitOne /\ [][NextRebuild]_vars

\* the dive table loses its last record while its rows are still shown
StoreShrink ==
    /\ ~failed
    /\ nr > 0
    /\ nr' = nr - 1
    /\ selected' = selected \ {nr - 1}
    /\ last' = Op("shrink", nr - 1, FALSE, Cur)
    /\ UNCHANGED <<when, tripflag, autogroup, dive_trip_list, treemodel, listmodel,
                   model, amount_selected, selected_dive, gtksel, expanded, lastcol,
                   sortorder, treesort, listsort, second_call, failed, rebuilds,
                   divedata, treecols, listcols, gdive, gres>>

\* rows outlive their records
NextShrink ==
    \/ StoreShrink
    \/ \E r \in DiveIdx : ToggleDiveRow(r)
    \/ \E k \in 1..MaxDives : ToggleGroupRow(-k)
    \/ \E k \in 1..MaxDives : ExpandRow(-k)
    \/ \E k \in 1..MaxDives : CollapseRow(-k)
    \/ \E col \in {DIVE_DATE, DIVE_DEPTH} : SortColumnChange(col)

SpecShrink == InitOne /\ [][NextShrink]_vars

\* the statistics of one dive
InitGas ==
    /\ dive_list_create(0, [i \in DiveIdx |-> 0], [i \in DiveIdx |-> TF_NONE], <<>>)
    /\ gdive \in [1..MaxCyl -> Cylinders]
    /\ gres = <<>>

GasClassify ==
    /\ gres = <<>>
    /\ gres' = get_dive_gas(gdive)
    /\ UNCHANGED <<nr, when, tripflag, autogroup, dive_trip_list, treemodel, listmodel,
                   model, selected, amount_selected, selected_dive, gtksel, expanded,
                   lastcol, sortorder, treesort, listsort, second_call, failed, last,
                   rebuilds, divedata, treecols, listcols, gdive>>

NextGas == GasClassify

SpecGas == InitGas /\ [][NextGas]_vars

\* three dives are compared pairwise by the sort of the gas column
InitSort ==
    /\ dive_list_create(0, [i \in DiveIdx |-> 0], [i \in DiveIdx |-> TF_NONE], <<>>)
    /\ gdive \in [1..MaxCyl -> SortCylinders]
    /\ gres = <<>>

StatUnchanged ==
    UNCHANGED <<nr, when, tripflag, autogroup, dive_trip_list, treemodel, listmodel,
                model, selected, amount_selected, selected_dive, gtksel, expanded,
                lastcol, sortorder, treesort, listsort, second_call, failed, last,
                rebuilds, divedata, treecols, listcols, gdive>>

\* the result holds the dives b and c and the comparisons a-b, b-a, b-c, a-c
NitroxSort(b, c) ==
    /\ gres = <<>>
    /\ gres' = <<"nitrox", b, c, nitrox_sort_func(gdive, b), nitrox_sort_func(b, gdive),
                 nitrox_sort_func(b, c), nitrox_sort_func(gdive, c)>>
    /\ StatUnchanged

NextGasSort == \E b, c \in [1..MaxCyl -> SortCylinders] : NitroxSort(b, c)

SpecGasSort == InitSort /\ [][NextGasSort]_vars

MaxSamples == 4

PressureCylinders ==
    [size : {0, 1}, start : {0, 200}, end : {0, 100},
     sample_start : {0, 200}, sample_end : {0, 100}]

\* cylinders with the pressures entered by hand only
ManualCylinders == {cyl \in PressureCylinders : cyl.sample_start = 0 /\ cyl.sample_end = 0}

\* one sample every 5 seconds, at the surface or at 5 m
SampleSeqs ==
    UNION {{q \in [1..m -> [time : {0, 5, 10, 15, 20}, depth : {0, 5000}]] :
              \A j \in 1..m : q[j].time = 5 * (j - 1)} : m \in 0..MaxSamples}

\* the air use of one dive
InitAir ==
    /\ dive_list_create(0, [i \in DiveIdx |-> 0], [i \in DiveIdx |-> TF_NONE], <<>>)
    /\ gdive \in [duration : {20}, meandepth : {5000}, sample : {<<>>},
                  cylinder : [1..MaxCyl -> PressureCylinders]]
    /\ gres = <<>>

CalcAiruse ==
    /\ gres = <<>>
    /\ gres' = <<"airuse", calculate_airuse(gdive.cylinder)>>
    /\ StatUnchanged

NextAir == CalcAiruse

SpecAir == InitAir /\ [][NextAir]_vars

\* the SAC of one dive
InitSac ==
    /\ dive_list_create(0, [i \in DiveIdx |-> 0], [i \in DiveIdx |-> TF_NONE], <<>>)
    /\ gdive \in [duration : {0, 5, 20}, meandepth : {0, 10000}, sample : SampleSeqs,
                  cylinder : [1..MaxCyl -> ManualCylinders]]
    /\ gres = <<>>

\* the result holds the value returned, whether the division was reached,
\* and the duration it used
CalcSac ==
    /\ gres = <<>>
    /\ \E v \in calculate_sac(gdive) :
         gres' = <<"sac", v,
                   SacEarly(calculate_airuse(gdive.cylinder), gdive.duration) = {},
                   SacDuration(gdive.sample, 1, gdive.duration)>>
    /\ StatUnchanged

\* two filled cylinders, each with its own mix
MixCylinders == [o2 : {0, 150, AIR_PERMILLE, 320}, he : {0, 350}, size : {12}]

\* a dive with the mixes X and Y in its first two cylinders
InitMix ==
    /\ dive_list_create(0, [i \in DiveIdx |-> 0], [i \in DiveIdx |-> TF_NONE], <<>>)
    /\ gdive \in {d \in [1..MaxCyl -> MixCylinders \cup {NoCylinder}] :
                    \A i \in 1..MaxCyl : (d[i] = NoCylinder) <=> (i > 2)}
    /\ gres = <<>>

\* the dive that uses the mix of cylinder cyl only
OnlyMix(cyl) == [i \in 1..MaxCyl |-> IF i = 1 THEN cyl ELSE NoCylinder]

\* the result holds the comparison of the dive using only X with the dive
\* using only Y, and the maximal gas of the dive holding both
CompareMixes ==
    /\ gres = <<>>
    /\ gres' = <<"mix", nitrox_sort_func(OnlyMix(gdive[1]), OnlyMix(gdive[2])),
                 get_dive_gas(gdive)>>
    /\ StatUnchanged

NextMix == CompareMixes

SpecMix == InitMix /\ [][NextMix]_vars

NextSac == CalcSac

SpecSac == InitSac /\ [][NextSac]_vars

(***************************************************************************)
(* Properties                                                               *)
(***************************************************************************)
KidSet(tree, k) == {tree[k].kids[j] : j \in 1..Len(tree[k].kids)}

\* the dives shown as children of a summary row of trip id
TripMembers(tree, id) ==
    UNION {KidSet(tree, k) : k \in {j \in 1..Len(tree) : tree[j].idx < 0 /\ tree[j].trip = id}}

TopLevelDive(tree, i) == \E k \in 1..Len(tree) : tree[k].idx = i

\* C1: a rebuild of an unchanged dive table leaves the trip list with the
\* same trips, the same dives under each trip and the same member counts
C1_RebuildKeepsTrips ==
    [][Rebuild =>
         /\ Len(dive_trip_list') = Len(dive_trip_list)
         /\ \A k \in 1..Len(dive_trip_list) :
              /\ dive_trip_list'[k].id = dive_trip_list[k].id
              /\ dive_trip_list'[k].number = dive_trip_list[k].number
              /\ TripMembers(treemodel', dive_trip_list[k].id)
                   = TripMembers(treemodel, dive_trip_list[k].id)]_vars

\* C2: a summary row with no member selected that is toggled to selected has
\* every member selected and reports selected; a summary row with every
\* member selected that is toggled to unselected has no member selected
C2_GroupToggle ==
    [][\A k \in 1..MaxDives :
         ToggleGroupRow(-k) /\ k <= Len(treemodel) /\ KidSet(treemodel, k) # {} =>
           /\ (-k \notin gtksel /\ KidSet(treemodel, k) \cap selected = {}) =>
                /\ ~failed'
                /\ KidSet(treemodel, k) \subseteq selected'
                /\ \E i \in KidSet(treemodel, k) : i \in selected'
                /\ amount_selected' = amount_selected + Cardinality(KidSet(treemodel, k))
           /\ (-k \in gtksel /\ KidSet(treemodel, k) \subseteq selected) =>
                /\ ~failed'
                /\ KidSet(treemodel, k) \cap selected' = {}]_vars

C2_Witness ==
    /\ last.op = "toggle_group" /\ last.on /\ ~failed
    /\ -last.arg <= Len(treemodel)
    /\ Cardinality(KidSet(treemodel, -last.arg)) >= 2
    /\ KidSet(treemodel, -last.arg) \cap last.presel = {}
    /\ KidSet(treemodel, -last.arg) \subseteq selected

\* C3: a change of the sort column, to or from the date column, leaves the
\* same dives selected, so the change to a column and back does too
C3_SortKeepsSelection ==
    [][(\E col \in SortKeys : SortColumnChange(col)) =>
         selected' = selected /\ amount_selected' = amount_selected]_vars

C3_Witness ==
    /\ last.op = "sort" /\ last.arg = DIVE_DATE /\ last.recon = 1
    /\ model = "tree"
    /\ Cardinality(selected) >= 2
    /\ selected = last.presel

\* C4: the tree store is on view exactly when the last sort column is the
\* date column, the list store for every other column
C4_ModelFollowsLastcol ==
    /\ model \in {"tree", "list"}
    /\ (model = "tree") <=> (lastcol = DIVE_DATE)

C4_Witness ==
    /\ last.op = "sort" /\ last.arg = DIVE_SAC /\ last.recon = 1
    /\ model = "list" /\ lastcol = DIVE_SAC

\* the newest dive of each run of dives that fit the dive before them
RunTops ==
    {i \in 0..(nr - 1) : i = nr - 1 \/ ~DIVE_FITS_TRIP(when[i], when[i + 1])}

RunOf(s) == {i \in 0..s : \A t \in RunTops : t < s => t < i}

\* C5: with autogroup on, from an empty trip list and unassigned dives, a
\* rebuild makes one trip per run of consecutive fitting dives, holding
\* and counting the dives of the run
C5_AutogroupRuns ==
    [][SetAutogroup(TRUE) /\ Fresh(nr, tripflag, dive_trip_list) =>
         /\ Len(dive_trip_list') = Cardinality(RunTops)
         /\ \A s \in RunTops : \E k \in 1..Len(dive_trip_list') :
              /\ dive_trip_list'[k].number = Cardinality(RunOf(s))
              /\ TripMembers(treemodel', dive_trip_list'[k].id) = RunOf(s)]_vars

C5_Witness ==
    /\ last.op = "autogroup" /\ last.on /\ last.fresh
    /\ Len(dive_trip_list) = 2
    /\ dive_trip_list[1].number = 1
    /\ dive_trip_list[2].number = 2

\* every row of the store on view shows the selection state of its dive, a
\* summary row that of its members
RowsMatchSelection ==
    /\ \A i \in DiveIdx : InSeq(i, ActiveRows(Ctx, Cur)) => ((i \in gtksel) <=> (i \in selected))
    /\ model = "tree" =>
         \A k \in 1..Len(treemodel) : treemodel[k].idx < 0 =>
             ((-k \in gtksel) <=> (KidSet(treemodel, k) \cap selected # {}))

\* C6: a rebuild leaves the same dives selected and every row of the store
\* on view showing the selection state of its dive
C6_RebuildKeepsSelection ==
    [][Rebuild => selected' = selected /\ RowsMatchSelection']_vars

\* C7: a dive met with autogroup off and no trip accepting it is a top-level
\* row and is counted in no trip
C7_UnfitDiveTopLevel ==
    \A i \in last.unfit :
        /\ TopLevelDive(treemodel, i)
        /\ \A p \in last.att : p[1] # i

\* C8: no selection operation fails, and the toggle of a dive row whose
\* record is gone changes no selection flag and no counter
C8_MissingRecordNoOp ==
    [][/\ ~failed'
       /\ \A r \in DiveIdx : r >= nr /\ ToggleDiveRow(r) =>
            selected' = selected /\ amount_selected' = amount_selected]_vars

\* C9: a nested sort notification changed nothing and started no pass, and
\* second_call is not set between operations
C9_NestedSuppressed ==
    /\ second_call = FALSE
    /\ last.reent # "acted"

C9_Witness ==
    /\ last.op = "sort" /\ last.reent = "suppressed" /\ last.recon = 1

\* C10: a dive whose cylinders all hold helium 0 and oxygen 209 permille is
\* classified (0, 0, 0)
C10_AirIsZero ==
    (gres # <<>> /\ \A i \in 1..MaxCyl : gdive[i].he = 0 /\ gdive[i].o2 = AIR_PERMILLE)
        => gres = <<0, 0, 0>>

C10_Witness ==
    /\ gres = <<0, 0, 0>>
    /\ \A i \in 1..MaxCyl : gdive[i].he = 0 /\ gdive[i].o2 = AIR_PERMILLE
    /\ \E i \in 1..MaxCyl : gdive[i].size # 0

Sign(x) == IF x < 0 THEN -1 ELSE IF x > 0 THEN 1 ELSE 0

\* the comparison of two gas triples <<o2, he, o2low>>: helium, then
\* oxygen, then lowest oxygen
LexGas(ga, gb) ==
    IF ga[2] # gb[2] THEN Sign(ga[2] - gb[2])
    ELSE IF ga[1] # gb[1] THEN Sign(ga[1] - gb[1])
    ELSE Sign(ga[3] - gb[3])

\* C11: the gas comparator is antisymmetric and transitive, its sign is the
\* lexicographic comparison of (helium, oxygen, lowest oxygen) of the two
\* dives, and it is 0 exactly when the two triples are equal
C11_NitroxTotalOrder ==
    gres # <<>> =>
        LET ga == get_dive_gas(gdive)
            gb == get_dive_gas(gres[2])
            gc == get_dive_gas(gres[3])
            ab == gres[4]
            ba == gres[5]
            bc == gres[6]
            ac == gres[7]
        IN  /\ Sign(ab) = -Sign(ba)
            /\ (ab <= 0 /\ bc <= 0) => ac <= 0
            /\ (ab >= 0 /\ bc >= 0) => ac >= 0
            /\ Sign(ab) = LexGas(ga, gb)
            /\ Sign(bc) = LexGas(gb, gc)
            /\ Sign(ac) = LexGas(ga, gc)
            /\ (ab = 0) <=> (ga = gb)

\* two dives that differ in the lowest oxygen only, and a third below both
C11_Witness ==
    /\ gres # <<>>
    /\ get_dive_gas(gdive)[2] = get_dive_gas(gres[2])[2]
    /\ get_dive_gas(gdive)[1] = get_dive_gas(gres[2])[1]
    /\ gres[4] > 0
    /\ gres[5] < 0
    /\ gres[6] > 0
    /\ gres[7] > 0

\* C12: calculate_sac returns 0 for a dive whose duration is 0 or whose air
\* use is 0, whatever its samples, cylinders and mean depth
C12_SacZero ==
    (gres # <<>> /\ (gdive.duration = 0 \/ calculate_airuse(gdive.cylinder) = 0))
        => gres[2] = 0

C12_Witness ==
    /\ gres # <<>>
    /\ gdive.duration = 0
    /\ calculate_airuse(gdive.cylinder) # 0
    /\ Len(gdive.sample) = MaxSamples
    /\ gdive.meandepth # 0
    /\ gres[2] = 0

RemoveAt(q, i) == SubSeq(q, 1, i - 1) \o SubSeq(q, i + 1, Len(q))

\* C13: a cylinder of size 0 adds nothing to the air use: the total is the
\* total of the dive without that cylinder, whatever its pressures
C13_EmptyCylinderAddsNothing ==
    gres # <<>> =>
        \A i \in 1..MaxCyl : gdive.cylinder[i].size = 0 =>
            gres[2] = calculate_airuse(RemoveAt(gdive.cylinder, i))

C13_Witness ==
    /\ gres # <<>>
    /\ gres[2] # 0
    /\ \E i \in 1..MaxCyl :
         /\ gdive.cylinder[i].size = 0
         /\ gdive.cylinder[i].start = 0 /\ gdive.cylinder[i].sample_start # 0
         /\ gdive.cylinder[i].end # 0

\* C14: every dive counted in a trip by the last fill is a child row of a
\* summary row of that trip, and every other dive is a top-level row
C14_AttachedIsChild ==
    /\ \A p \in last.att : p[1] \in TripMembers(treemodel, p[2])
    /\ \A i \in 0..(nr - 1) : TopLevelDive(treemodel, i) <=> (\A p \in last.att : p[1] # i)

\* C15: after a rebuild every dive kept out of trips is a top-level row,
\* is still kept out of trips and is counted in no trip
C15_DetachedStaysOut ==
    [][(Rebuild \/ \E b \in BOOLEAN : SetAutogroup(b)) =>
         \A i \in 0..(nr - 1) : UNGROUPED_DIVE(tripflag[i]) =>
             /\ UNGROUPED_DIVE(tripflag'[i])
             /\ TopLevelDive(treemodel', i)
             /\ \A p \in last'.att : p[1] # i]_vars

C15_Witness ==
    /\ last.op \in {"rebuild", "autogroup"}
    /\ nr = MaxDives
    /\ UNGROUPED_DIVE(tripflag[1])
    /\ TopLevelDive(treemodel, 1)
    /\ <<2, 1>> \in last.att
    /\ \E p \in last.att : p[1] = 0

\* C16: a dive handled by the rule for dives with a trip, or with no trips
\* being created, is counted in the nearest trip at or before the cursor
\* that accepts it, when there is one
C16_NearestTripTaken ==
    \A p \in last.near : p \in last.att

\* C17: every trip that got a dive in the last fill is dated as the last
\* dive it got, the oldest of its dives
C17_TripDatedByOldest ==
    \A k \in 1..Len(dive_trip_list) :
        LET M == {p[1] : p \in {q \in last.att : q[2] = dive_trip_list[k].id}}
        IN  M # {} =>
              /\ dive_trip_list[k].when = when[MinOf(M)]
              /\ dive_trip_list[k].when = MinOf({when[i] : i \in M})

C17_Witness ==
    /\ last.op \in {"rebuild", "autogroup"}
    /\ \E k \in 1..Len(dive_trip_list) :
         /\ Cardinality({q \in last.att : q[2] = dive_trip_list[k].id}) >= 2
         /\ dive_trip_list[k].when = when[0]

\* C18: the trip list is ordered by date, the oldest trip first, each trip
\* reached by the step to the previous trip not newer than the one left
C18_TripListOrdered ==
    \A j, k \in 1..Len(dive_trip_list) : j < k => dive_trip_list[j].when <= dive_trip_list[k].when

\* C19: every summary row has a child, and the dive selected at the end of a
\* fill is a dive row
C19_GroupRowHasChild ==
    /\ \A k \in 1..Len(treemodel) : treemodel[k].idx < 0 => Len(treemodel[k].kids) >= 1
    /\ nr > 0 => selected_dive >= 0

C19_Witness ==
    /\ last.op \in {"rebuild", "autogroup"}
    /\ Len(treemodel) >= 2
    /\ treemodel[1].idx < 0
    /\ treemodel[2].idx < 0
    /\ selected_dive = treemodel[1].kids[1]

\* C20: the toggle of a summary row to the state its members already show
\* (some member selected, or none) changes no selection flag, not the
\* counter and not the selected dive
C20_GroupToggleNoOp ==
    [][\A k \in 1..MaxDives :
         (/\ ToggleGroupRow(-k)
          /\ k <= Len(treemodel)
          /\ (-k \notin gtksel) = (KidSet(treemodel, k) \cap selected # {})) =>
           /\ selected' = selected
           /\ amount_selected' = amount_selected
           /\ selected_dive' = selected_dive]_vars

C20_Witness ==
    /\ last.op = "toggle_group" /\ last.on /\ ~failed
    /\ -last.arg <= Len(treemodel)
    /\ KidSet(treemodel, -last.arg) \cap last.presel # {}
    /\ ~(KidSet(treemodel, -last.arg) \subseteq last.presel)
    /\ selected = last.presel

\* C21: in a pass of selection_cb no summary row is checked before a dive
\* row, in whatever order the rows were changed
C21_DivesBeforeGroups ==
    \A a, b \in 1..Len(last.pass) : (a < b /\ last.pass[a] < 0) => last.pass[b] < 0

C21_Witness ==
    /\ last.op = "select_rows" /\ ~failed
    /\ Len(last.queued) >= 2
    /\ last.queued[1] < 0
    /\ last.queued[2] >= 0
    /\ Len(last.pass) = Len(last.queued)
    /\ last.pass[1] >= 0
    /\ last.pass[Len(last.pass)] < 0

\* C22: after a sort-column change that switches the store on view, every
\* dive row shows the selection state of its dive and every summary row
\* is selected exactly when one of its members is
C22_ReconcileRows ==
    [][((\E col \in SortKeys : SortColumnChange(col)) /\ model' # model) =>
         RowsMatchSelection']_vars

\* C23: after a summary row is expanded every member row is selected in the
\* view exactly when its dive is selected
C23_ExpandShowsSelection ==
    [][\A k \in 1..MaxDives : (ExpandRow(-k) /\ k <= Len(treemodel)) =>
         \A i \in KidSet(treemodel, k) : (i \in gtksel') <=> (i \in selected')]_vars

C23_Witness ==
    /\ last.op = "expand" /\ ~failed
    /\ -last.arg <= Len(treemodel)
    /\ \E i, j \in KidSet(treemodel, -last.arg) :
         /\ i \in selected /\ i \in gtksel
         /\ j \notin selected /\ j \notin gtksel

\* C24: a sort notification for the last sort column records the notified
\* direction for that column and changes nothing else: not the store on
\* view, the last column, the direction of another column or the selected
\* dives, and no pass over the rows runs
C24_SameKeyRecordsOrder ==
    [][\A col \in SortKeys : (SortColumnChange(col) /\ col = lastcol) =>
         /\ sortorder'[col] = (IF model = "tree" THEN treesort' ELSE listsort').order
         /\ \A k \in SortKeys \ {col} : sortorder'[k] = sortorder[k]
         /\ model' = model
         /\ lastcol' = lastcol
         /\ selected' = selected
         /\ amount_selected' = amount_selected
         /\ gtksel' = gtksel
         /\ last'.recon = 0]_vars

C24_Witness ==
    /\ last.op = "sort" /\ last.arg = lastcol
    /\ last.recon = 0 /\ last.reent = "none"
    /\ model = "list"
    /\ listsort = [col |-> lastcol, order |-> GTK_SORT_ASCENDING]
    /\ sortorder[lastcol] = GTK_SORT_ASCENDING
    /\ \E k \in SortKeys \ {lastcol} : sortorder[k] = GTK_SORT_DESCENDING
    /\ selected # {}

\* C25: after a sort-column change that switches the store on view, the new
\* store is sorted by the column in the direction saved for it, whatever
\* direction was notified, and the saved direction is unchanged
C25_SwitchKeepsSavedOrder ==
    [][\A col \in SortKeys : (SortColumnChange(col) /\ model' # model) =>
         /\ (IF model' = "tree" THEN treesort' ELSE listsort')
              = [col |-> col, order |-> sortorder[col]]
         /\ sortorder' = sortorder]_vars

C25_Witness ==
    /\ last.op = "sort" /\ last.recon = 1
    /\ model = "list"
    /\ treesort = [col |-> lastcol, order |-> GTK_SORT_ASCENDING]
    /\ listsort = [col |-> lastcol, order |-> GTK_SORT_DESCENDING]
    /\ sortorder[lastcol] = GTK_SORT_DESCENDING

RECURSIVE SumOver(_, _)
SumOver(f, D) == IF D = {} THEN 0 ELSE LET x == CHOOSE y \in D : TRUE IN f[x] + SumOver(f, D \ {x})

\* the runs of samples at the surface with a deeper sample before and after
InteriorRuns(sample) ==
    {r \in (1..Len(sample)) \X (1..Len(sample)) :
        /\ r[1] <= r[2]
        /\ \A j \in r[1]..r[2] : sample[j].depth < 100
        /\ r[1] > 1 /\ sample[r[1] - 1].depth >= 100
        /\ r[2] < Len(sample) /\ sample[r[2] + 1].depth >= 100}

\* C26: the duration calculate_sac divides by is the dive's duration less,
\* for each run of surface samples with a deeper sample before and after,
\* the time from the first to the last sample of the run
C26_SacDurationInterior ==
    (gres # <<>> /\ gres[3]) =>
        gres[4] = gdive.duration
                  - SumOver([r \in InteriorRuns(gdive.sample) |->
                                gdive.sample[r[2]].time - gdive.sample[r[1]].time],
                            InteriorRuns(gdive.sample))

\* the oxygen of a mix, air for 0
MixO2(cyl) == IF cyl.o2 = 0 THEN AIR_PERMILLE ELSE cyl.o2

\* C27: the dive using only mix X sorts above the dive using only mix Y
\* exactly when X differs from Y and the dive holding both has X as its
\* maximal gas
C27_SortMirrorsMaximalGas ==
    gres # <<>> =>
        ((gres[2] > 0) <=>
            /\ <<gdive[1].he, MixO2(gdive[1])>> # <<gdive[2].he, MixO2(gdive[2])>>
            /\ gres[3][2] = gdive[1].he
            /\ gres[3][1] = MixO2(gdive[1]))

\* C29: amount_selected is the number of dives whose selected flag is set,
\* and is not negative
C29_CounterMatchesFlags ==
    /\ amount_selected = Cardinality(selected)
    /\ amount_selected >= 0

C29_Witness ==
    /\ last.op = "sort" /\ last.recon = 1 /\ ~failed
    /\ model = "tree"
    /\ amount_selected = 2
    /\ Cardinality(selected) = 2
    /\ expanded # {}

\* C30: the expansion or the collapse of a summary row changes no dive's
\* selected flag and not amount_selected
C30_ExpandCollapseKeepSelection ==
    [][(\E k \in 1..MaxDives : ExpandRow(-k) \/ CollapseRow(-k)) =>
         selected' = selected /\ amount_selected' = amount_selected]_vars

C30_Witness ==
    /\ last.op = "collapse" /\ ~failed
    /\ last.arg \in gtksel
    /\ -last.arg <= Len(treemodel)
    /\ KidSet(treemodel, -last.arg) \cap selected # {}
    /\ ~(KidSet(treemodel, -last.arg) \subseteq selected)
    /\ selected = last.presel

\* C28: flush_divelist and update_dive_list_units end with fill_one_dive
\* nested at most one level into the store that is not on view, and the
\* rows of every refreshed dive hold the dive's number, rating, SAC, OTU and
\* total weight in both stores
C28_RefreshBothStores ==
    [][/\ \A i \in DiveIdx : FlushDivelist(i) =>
            /\ last'.depth <= 1
            /\ treecols'[i] = DiveCols(divedata[i])
            /\ listcols'[i] = DiveCols(divedata[i])
       /\ UpdateDiveListUnits =>
            /\ last'.depth <= 1
            /\ \A i \in 0..(nr - 1) :
                 /\ treecols'[i] = DiveCols(divedata[i])
                 /\ listcols'[i] = DiveCols(divedata[i])]_vars

C28_Witness ==
    /\ last.op = "flush" /\ last.depth = 1
    /\ model = "list"
    /\ divedata[last.arg] \in DiveEdits
    /\ treecols[last.arg].totalweight = 5
    /\ listcols[last.arg].totalweight = 5
    /\ \E j \in DiveIdx : j < nr /\ treecols[j] # DiveCols(divedata[j])

\* C31: after a rebuild the dive count on every summary row equals the number
\* of its child rows and the member count of the trip it stands for
C31_GroupCountMatches ==
    last.op \in {"rebuild", "autogroup"} =>
        \A k \in 1..Len(treemodel) : treemodel[k].idx < 0 =>
            /\ treemodel[k].nr = Len(treemodel[k].kids)
            /\ treemodel[k].nr = DIVE_TRIP(dive_trip_list, treemodel[k].trip).number

====
